---- MODULE Spec2Model ----
(***************************************************************************)
(* Training / evaluation control logic of the few-shot recipes in          *)
(* src/fs/ln_only.py (run_ln_only) and src/fs/twostage.py (run_twostage,   *)
(* SingleStreamClassifier, evaluate_selective_inference).                  *)
(*                                                                         *)
(* Tensors are modelled symbolically.  An embedding row is a record        *)
(*   [cat, tmpl, enc, upd, norm]                                           *)
(* cat/tmpl/enc say which prompt was encoded by which encoder version,     *)
(* upd counts the optimizer updates applied to the row (its direction),    *)
(* norm is its L2 norm.  Dividing a row by its norm sets norm to 1.        *)
(***************************************************************************)
EXTENDS Integers, Sequences, FiniteSets, TLC

\* ---------------------------------------------------------------- bounds
MaxIters == 3          \* largest total_iters (args.n_iters * args.shots)
MaxLoader == 2         \* largest number of batches of the train loader
MaxTestLoader == 2     \* largest number of batches of a test loader
FracDen == 2           \* args.n_iters_frac ranges over k / FracDen
GrowthInterval == 2    \* GradScaler growth_interval (2000 in torch)
MaxBackoff == 2        \* halvings of the initial scale that are told apart
MaxNorm == 2           \* largest row norm an optimizer step can leave
MaxClientSteps == 1    \* optimizer steps a client of the classifier takes

\* torch.amp.GradScaler('cuda') starts at scale 2^16
InitScaleExp == 16

\* ---------------------------------------------------------------- dataset
\* dataset.classnames, dataset.test_classnames, dataset.test_new_classnames
Classnames == <<"cat", "dog">>
TestClassnames == <<"cat", "dog">>
TestNewClassnames == <<"owl">>

\* dataset.template[0]; the default template of infer differs from the
\* default template of the constructor
DatasetTemplate == "a photo of a {}."
InferDefaultTemplate == "a photo of {}."
Templates == {DatasetTemplate, InferDefaultTemplate}

VARIABLES
    driver,         \* "ln_only" | "twostage" | "client": who drives the objects
    debug,          \* args.debug
    setting,        \* args.setting
    total_iters,    \* run_*: total_iters
    cosine_iters,   \* run_twostage: cosine_iters (stage-1 sub-budget)
    trainLen,       \* number of batches train_loader yields
    testLen,        \* <<batches of the base / unified test loader, batches of the novel test loader>>
    peft,           \* args.peft: "ln" | "lora" | "bitfit"
    ln_modality,    \* args.ln_modality: "vision" | "text" | "both"
    encoder,        \* args.encoder: "vision" | "text" | "both"
    trainable,      \* branches of clip_model that hold parameters given to the optimizer
    no_grad,        \* branches train_epoch runs under torch.no_grad
    grads,          \* branches whose parameters hold a gradient after backward
    pc,             \* position of the control flow
    ret,            \* where the running evaluate_selective_inference call returns to
    count_iters,    \* the iteration counter
    ep_total,       \* the total_iters parameter of the running epoch function
    i,              \* batches of the running pass processed so far
    tot_samples,    \* tot_samples of the running epoch / evaluation function
    scaleExp,       \* GradScaler: log2 of its scale (ScaleFloor: that or less)
    growth_tracker, \* GradScaler: consecutive unskipped steps
    scalerEvt,      \* what the scaler did on the last batch: "none" | "skipped" | "stepped" | "grew"
    skips,          \* optimizer steps the scaler skipped in this run (counted up to MaxBackoff)
    sched_steps,    \* scheduler.step() calls on the current scheduler
    sched_T_max,    \* the horizon the current scheduler was constructed with
    enc,            \* number of optimizer updates applied to the encoder
    b1,             \* batches processed by train_epoch in this run (counted up to MaxIters)
    b2,             \* batches processed by train_epoch_second_stage in this run (counted up to MaxIters)
    builtAt,        \* count_iters when the SingleStreamClassifier was constructed (-1 before)
    classifier,     \* model.classifier (<<>> before the model is constructed)
    cat2id,         \* model.cat2id, as the sequence of its keys in row order
    inference_classifier, \* model.inference_classifier: [has, mat, cats, tmpl]
    evClassnames,   \* classnames parameter of the running evaluation
    evTemplate,     \* template parameter of the running evaluation
    evLen,          \* number of batches of the loader of the running evaluation
    evBuilds,       \* classifier constructions during the running evaluation
    lastInfer,      \* the last infer call: [x, cats, once, built]
    builds,         \* the last two classifier constructions of infer, newest first
    simMatrix,      \* class-side operand of the last similarity product
    logits,         \* result of the last similarity product
    evalLog,        \* evaluator calls so far: <<[loader, classnames]>>
    result,         \* keys of the returned mapping ({} until returned)
    err             \* "none" | "ZeroDivisionError"

vars == <<driver, debug, setting, total_iters, cosine_iters, trainLen, testLen,
          peft, ln_modality, encoder, trainable, no_grad, grads,
          pc, ret, count_iters, ep_total, i, tot_samples, scaleExp,
          growth_tracker, scalerEvt, skips, sched_steps, sched_T_max, enc,
          b1, b2, builtAt, classifier, cat2id, inference_classifier, evClassnames, evTemplate,
          evLen, evBuilds, lastInfer, builds, simMatrix, logits, evalLog, result, err>>

argVars == <<driver, debug, setting, total_iters, cosine_iters, trainLen, testLen,
             peft, ln_modality, encoder>>
gradVars == <<trainable, no_grad, grads>>
cfgVars == <<argVars, gradVars>>
trainVars == <<count_iters, ep_total, i, tot_samples, scaleExp, growth_tracker,
               scalerEvt, skips, sched_steps, sched_T_max, enc, b1, b2>>
modelVars == <<classifier, cat2id, inference_classifier, builtAt>>
evalVars == <<evClassnames, evTemplate, evLen, evBuilds, lastInfer, builds, ret>>
simVars == <<simMatrix, logits>>
outVars == <<evalLog, result>>

\* ---------------------------------------------------------------- tensors
\* clip_model.encode_text(tokenize_texts(template, [cat])) with the encoder
\* after e updates: a row that is not unit-norm
EncodeText(e, tmpl, cat) ==
    [cat |-> cat, tmpl |-> tmpl, enc |-> e, upd |-> 0, norm |-> 2 + (e % 2)]

\* row / row.norm(dim=-1, keepdim=True)
Normalize(row) == [row EXCEPT !.norm = 1]

\* m / m.norm(dim=-1, keepdim=True)
NormalizeRows(m) == [k \in DOMAIN m |-> Normalize(m[k])]

\* encode_text of a batch of class names
EncodeTexts(e, tmpl, names) == [k \in DOMAIN names |-> EncodeText(e, tmpl, names[k])]

\* logit_scale.exp() * x @ m.t(), x a unit-norm image feature of batch x
\* computed by the encoder after e updates
Similarity(x, e, m) == [k \in DOMAIN m |-> [img |-> x, enc |-> e, row |-> m[k]]]

NoCache == [has |-> FALSE, mat |-> <<>>, cats |-> <<>>, tmpl |-> ""]
NoInfer == [x |-> 0, cats |-> <<>>, once |-> FALSE, built |-> FALSE]

Range(f) == {f[k] : k \in DOMAIN f}

\* ---------------------------------------------------------------- GradScaler
\* scaler.step(optimizer): whether the unscaled gradients hold an inf or nan
FoundInfEveryStep == {TRUE}
FoundInfOutcomes == BOOLEAN

\* scaler.get_scale()
GetScale(e) == 2 ^ e

\* scaler.update(): back off (halve, reset the tracker) when the step found an
\* inf/nan gradient; otherwise count the step and double the scale every
\* GrowthInterval unskipped steps.  Returns <<scaleExp', growth_tracker'>>.
ScalerUpdate(e, tracker, found_inf) ==
    IF found_inf THEN <<e - 1, 0>>
    ELSE IF tracker + 1 = GrowthInterval THEN <<e + 1, 0>>
    ELSE <<e, tracker + 1>>

\* what the scaler did on a batch
ScalerEvent(tracker, found_inf) ==
    IF found_inf THEN "skipped"
    ELSE IF tracker + 1 = GrowthInterval THEN "grew" ELSE "stepped"

\* The scale is kept exactly down to 2^ScaleFloor and as "2^ScaleFloor or
\* less" below it: the scaler's decisions do not read the scale, and the
\* epoch functions only compare the scale before and after one update, which
\* is done on the exact values before the result is stored.
ScaleFloor == InitScaleExp - MaxBackoff
StoredScaleExp(e) == IF e < ScaleFloor THEN ScaleFloor ELSE e

\* the ghost counters b1, b2 and skips stop counting at their caps
CapBatches(n) == IF n > MaxIters THEN MaxIters ELSE n
CapSkips(n) == IF n > MaxBackoff THEN MaxBackoff ELSE n

\* skip_lr_sched = (scale > scaler.get_scale()), scale read before update()
SkipLrSchedReversed(pre, post) == post > pre
SkipLrSchedNonStrict(pre, post) == pre >= post
SkipLrSched(pre, post) == pre > post

\* if count_iters == total_iters: break
ReachedTotalOvershoot(c, t) == c > t
ReachedTotal(c, t) == c = t

\* optimizer.step() on [model.classifier]: every row moves; ns are the norms
\* the rows end with
StepClassifier(m, ns) ==
    [k \in DOMAIN m |-> [m[k] EXCEPT !.upd = @ + 1, !.norm = ns[k]]]

\* ---------------------------------------------------------------- epoch bodies
\* scaler.step(optimizer); scale = scaler.get_scale(); scaler.update();
\* skip_lr_sched = (scale > scaler.get_scale()); if not skip_lr_sched:
\* scheduler.step(); count_iters += 1      (the two-stage epoch functions)
GatedStep(found_inf) ==
    LET upd == ScalerUpdate(scaleExp, growth_tracker, found_inf)
        skip_lr_sched == SkipLrSched(GetScale(scaleExp), GetScale(upd[1]))
    IN  /\ scaleExp' = StoredScaleExp(upd[1])
        /\ growth_tracker' = upd[2]
        /\ scalerEvt' = ScalerEvent(growth_tracker, found_inf)
        /\ skips' = IF found_inf THEN CapSkips(skips + 1) ELSE skips
        /\ sched_steps' = IF skip_lr_sched THEN sched_steps ELSE sched_steps + 1
        /\ count_iters' = IF skip_lr_sched THEN count_iters ELSE count_iters + 1

\* scaler.step(optimizer); scheduler.step(); optimizer.zero_grad();
\* scaler.update(); ...; count_iters += 1      (ln_only.train_epoch)
UngatedStepSkipAware(found_inf) == GatedStep(found_inf)
UngatedStep(found_inf) ==
    LET upd == ScalerUpdate(scaleExp, growth_tracker, found_inf)
    IN  /\ scaleExp' = StoredScaleExp(upd[1])
        /\ growth_tracker' = upd[2]
        /\ scalerEvt' = ScalerEvent(growth_tracker, found_inf)
        /\ skips' = IF found_inf THEN CapSkips(skips + 1) ELSE skips
        /\ sched_steps' = sched_steps + 1
        /\ count_iters' = count_iters + 1

\* text_features / text_features.norm(...); image_features @ text_features.t()
ContrastiveForward ==
    /\ simMatrix' = NormalizeRows(EncodeTexts(enc, DatasetTemplate, Classnames))
    /\ logits' = Similarity(i + 1, enc, simMatrix')

\* "# print after each epoch": the averages divide by tot_samples
EpochAverages(next) ==
    IF count_iters <= ep_total /\ tot_samples = 0
    THEN /\ err' = "ZeroDivisionError"
         /\ pc' = "error"
    ELSE /\ err' = err
         /\ pc' = next

\* entering the for loop of an epoch function called with budget t
EnterEpoch(t, batch, end) ==
    /\ ep_total' = t
    /\ i' = 0
    /\ tot_samples' = 0
    /\ pc' = IF trainLen = 0 THEN end ELSE batch

\* leaving the body of the for loop: break, exhausted loader, or next batch
AfterBatch(batch, end) ==
    /\ i' = i + 1
    /\ tot_samples' = tot_samples + 1
    /\ pc' = IF ReachedTotal(count_iters', ep_total) \/ i' = trainLen
             THEN end ELSE batch

\* ---------------------------------------------------------------- run_ln_only
\* while count_iters < total_iters: train_epoch(...)
LnWhile ==
    /\ pc = "ln_while"
    /\ IF count_iters < total_iters
       THEN EnterEpoch(total_iters, "ln_batch", "ln_end")
       ELSE /\ pc' = "ln_eval"
            /\ UNCHANGED <<ep_total, i, tot_samples>>
    /\ UNCHANGED <<cfgVars, modelVars, evalVars, simVars, outVars, err,
                   count_iters, scaleExp, growth_tracker, scalerEvt, skips,
                   sched_steps, sched_T_max, enc, b1, b2>>

\* one batch of ln_only.train_epoch
LnBatch ==
    /\ pc = "ln_batch"
    /\ \E found_inf \in FoundInfOutcomes :
        /\ ContrastiveForward
        /\ enc' = IF found_inf THEN enc ELSE enc + 1
        /\ UngatedStep(found_inf)
    /\ AfterBatch("ln_batch", "ln_end")
    /\ b1' = CapBatches(b1 + 1)
    /\ UNCHANGED <<b2, cfgVars, modelVars, evalVars, outVars, err, ep_total, sched_T_max>>

\* end of ln_only.train_epoch, and "if args.debug: break" of the driver
LnEpochEnd ==
    /\ pc = "ln_end"
    /\ EpochAverages(IF debug THEN "ln_eval" ELSE "ln_while")
    /\ UNCHANGED <<cfgVars, trainVars, modelVars, evalVars, simVars, outVars>>

\* ---------------------------------------------------------------- run_twostage, stage 1
\* the condition of "while count_iters < cosine_iters:" (line 273)
Stage1ContinuesInclusive(c, s) == c <= s
Stage1Continues(c, s) == c < s

\* while count_iters < cosine_iters: train_epoch(..., cosine_iters, args)
Stage1While ==
    /\ pc = "s1_while"
    /\ IF Stage1Continues(count_iters, cosine_iters)
       THEN EnterEpoch(cosine_iters, "s1_batch", "s1_end")
       ELSE /\ pc' = "s2_init"
            /\ UNCHANGED <<ep_total, i, tot_samples>>
    /\ UNCHANGED <<cfgVars, modelVars, evalVars, simVars, outVars, err,
                   count_iters, scaleExp, growth_tracker, scalerEvt, skips,
                   sched_steps, sched_T_max, enc, b1, b2>>

\* one batch of twostage.train_epoch on which the scaler finds (found_inf)
\* or does not find an overflow
TrainEpochStep(found_inf) ==
    /\ pc = "s1_batch"
    /\ ContrastiveForward
    /\ enc' = IF found_inf THEN enc ELSE enc + 1
    /\ GatedStep(found_inf)
    /\ AfterBatch("s1_batch", "s1_end")
    /\ b1' = CapBatches(b1 + 1)
    /\ UNCHANGED <<b2, cfgVars, modelVars, evalVars, outVars, err, ep_total, sched_T_max>>

\* one batch of twostage.train_epoch
TrainEpochBatch == \E found_inf \in FoundInfOutcomes : TrainEpochStep(found_inf)

\* end of twostage.train_epoch, and "if args.debug: break" of the driver
TrainEpochEnd ==
    /\ pc = "s1_end"
    /\ EpochAverages(IF debug THEN "s2_init" ELSE "s1_while")
    /\ UNCHANGED <<cfgVars, trainVars, modelVars, evalVars, simVars, outVars>>

\* ---------------------------------------------------------------- SingleStreamClassifier
\* _init_classifier: encode the prompts, normalize, wrap as the parameter
InitClassifier(e, tmpl, classnames) ==
    NormalizeRows(EncodeTexts(e, tmpl, classnames))

LastIndex(s, c) ==
    CHOOSE k \in DOMAIN s : s[k] = c /\ \A j \in DOMAIN s : s[j] = c => j <= k

\* self.cat2id = {cat: i for i, cat in enumerate(classnames)}
Cat2Id(classnames) == [c \in Range(classnames) |-> LastIndex(classnames, c)]

\* forward: classifier = self.classifier / self.classifier.norm(...);
\* logits = self.logit_scale.exp() * x @ classifier.t()
Forward(x) ==
    /\ simMatrix' = NormalizeRows(classifier)
    /\ logits' = Similarity(x, enc, simMatrix')

\* infer, lines 89-103: the rows of classifier in the order of categories,
\* encoded afresh for the categories cat2id does not know
StackRowsMissingFirst(categories, tmpl) ==
    LET missing == SelectSeq(categories, LAMBDA c : c \notin DOMAIN cat2id)
        known == SelectSeq(categories, LAMBDA c : c \in DOMAIN cat2id)
    IN  EncodeTexts(enc, tmpl, missing)
            \o [k \in DOMAIN known |-> classifier[cat2id[known[k]]]]
StackRows(categories, tmpl) ==
    LET missing_classnames == SelectSeq(categories, LAMBDA c : c \notin DOMAIN cat2id)
        new_embeddings == EncodeTexts(enc, tmpl, missing_classnames)
        cat2new == [c \in Range(missing_classnames) |->
                        new_embeddings[LastIndex(missing_classnames, c)]]
        cat2known == [c \in Range(categories) \cap DOMAIN cat2id |->
                        classifier[cat2id[c]]]
    IN  [k \in DOMAIN categories |->
            IF categories[k] \in DOMAIN cat2new
            THEN cat2new[categories[k]] ELSE cat2known[categories[k]]]

\* infer, line 104: classifier / classifier.norm(dim=-1, keepdim=True)
InferenceClassifierRaw(categories, tmpl) == StackRows(categories, tmpl)
InferenceClassifierMatrix(categories, tmpl) ==
    NormalizeRows(StackRows(categories, tmpl))

\* infer, line 85: compute_classifier_once and hasattr(self, "inference_classifier")
UseCachedIgnoringFlag(once, has) == has
UseCached(once, has) == once /\ has

\* infer assigns self.inference_classifier only (line 105): the rows encoded
\* for unknown categories are not appended to self.classifier
TrainedMatrixPersisting(categories, tmpl) ==
    classifier \o EncodeTexts(enc, tmpl,
                     SelectSeq(categories, LAMBDA c : c \notin DOMAIN cat2id))
TrainedMatrixAfterInfer(categories, tmpl) == classifier

\* SingleStreamClassifier.infer(x, categories, template, compute_classifier_once)
Infer(x, categories, tmpl, once) ==
    LET reuse == UseCached(once, inference_classifier.has)
        fresh == InferenceClassifierMatrix(categories, tmpl)
        clf == IF reuse THEN inference_classifier.mat ELSE fresh
    IN  /\ inference_classifier' =
              IF reuse THEN inference_classifier
              ELSE [has |-> TRUE, mat |-> fresh, cats |-> categories, tmpl |-> tmpl]
        /\ builds' =
              IF reuse THEN builds
              ELSE <<[cats |-> categories, tmpl |-> tmpl, mat |-> fresh]>>
                       \o SubSeq(builds, 1, IF Len(builds) > 0 THEN 1 ELSE 0)
        /\ simMatrix' = clf
        /\ logits' = Similarity(x, enc, clf)
        /\ lastInfer' = [x |-> x, cats |-> categories, once |-> once,
                         built |-> ~reuse]
        /\ classifier' = TrainedMatrixAfterInfer(categories, tmpl)
        /\ cat2id' = cat2id

\* ---------------------------------------------------------------- evaluate_selective_inference
\* lines 123-130: drop the cached classifier, reset the sums, enter the loop
EvalClearKeepsCache(c) == c
EvalClear(c) == NoCache
EvalStart(len, classnames, tmpl, back) ==
    /\ inference_classifier' = EvalClear(inference_classifier)
    /\ tot_samples' = 0
    /\ i' = 0
    /\ evLen' = len
    /\ evClassnames' = classnames
    /\ evTemplate' = tmpl
    /\ evBuilds' = 0
    /\ ret' = back
    /\ pc' = IF len = 0 THEN "ev_end" ELSE "ev_batch"

\* one batch of the loop: model.infer(images, categories=classnames, template=template)
EvalBatch ==
    /\ pc = "ev_batch"
    /\ Infer(i + 1, evClassnames, evTemplate, TRUE)
    /\ evBuilds' = evBuilds + (IF lastInfer'.built THEN 1 ELSE 0)
    /\ tot_samples' = tot_samples + 1
    /\ i' = i + 1
    /\ pc' = IF i' = evLen THEN "ev_end" ELSE "ev_batch"
    /\ UNCHANGED <<cfgVars, outVars, err, count_iters, ep_total, scaleExp,
                   growth_tracker, scalerEvt, skips, sched_steps, sched_T_max,
                   enc, b1, b2, builtAt, evClassnames, evTemplate, evLen, ret>>

\* acc /= tot_samples; return acc (the locals of the call end with it)
EvalEnd ==
    /\ pc = "ev_end"
    /\ IF tot_samples = 0
       THEN err' = "ZeroDivisionError" /\ pc' = "error"
       ELSE err' = err /\ pc' = ret
    /\ i' = 0
    /\ tot_samples' = 0
    /\ evClassnames' = <<>>
    /\ evTemplate' = ""
    /\ evLen' = 0
    /\ evBuilds' = 0
    /\ ret' = "none"
    /\ UNCHANGED <<cfgVars, modelVars, simVars, outVars, lastInfer, builds,
                   count_iters, ep_total, scaleExp, growth_tracker, scalerEvt,
                   skips, sched_steps, sched_T_max, enc, b1, b2>>

\* ---------------------------------------------------------------- run_twostage, stage 2
\* second_stage_iters = total_iters - count_iters (line 296)
SecondStageItersOfBudget(total, count) == total
SecondStageIters(total, count) == total - count

\* lines 289-297: the classifier, its optimizer, a new scaler and scheduler
BuildClassifier ==
    /\ pc = "s2_init"
    /\ classifier' = InitClassifier(enc, DatasetTemplate, Classnames)
    /\ cat2id' = Cat2Id(Classnames)
    /\ inference_classifier' = NoCache
    /\ builtAt' = count_iters
    /\ scaleExp' = InitScaleExp
    /\ growth_tracker' = 0
    /\ sched_T_max' = SecondStageIters(total_iters, count_iters)
    /\ sched_steps' = 0
    /\ pc' = "s2_while"
    /\ UNCHANGED <<cfgVars, evalVars, simVars, outVars, err, count_iters,
                   ep_total, i, tot_samples, scalerEvt, skips, enc, b1, b2>>

\* while count_iters < total_iters: train_epoch_second_stage(..., total_iters)
Stage2While ==
    /\ pc = "s2_while"
    /\ IF count_iters < total_iters
       THEN EnterEpoch(total_iters, "s2_batch", "s2_end")
       ELSE /\ pc' = "eval"
            /\ UNCHANGED <<ep_total, i, tot_samples>>
    /\ UNCHANGED <<cfgVars, modelVars, evalVars, simVars, outVars, err,
                   count_iters, scaleExp, growth_tracker, scalerEvt, skips,
                   sched_steps, sched_T_max, enc, b1, b2>>

\* optimizer = torch.optim.AdamW([model.classifier], ...) (line 291): what
\* the stage-2 optimizer steps
SecondStageOptimizerAllParams == {"classifier", "encoder"}
SecondStageOptimizerParams == {"classifier"}

\* one batch of train_epoch_second_stage on which the scaler finds
\* (found_inf) or does not find an overflow
SecondStageStep(found_inf) ==
    /\ pc = "s2_batch"
    /\ Forward(i + 1)
    /\ IF found_inf
       THEN classifier' = classifier /\ enc' = enc
       ELSE /\ \E ns \in [DOMAIN classifier -> 1..MaxNorm] :
                  classifier' = IF "classifier" \in SecondStageOptimizerParams
                                THEN StepClassifier(classifier, ns) ELSE classifier
            /\ enc' = IF "encoder" \in SecondStageOptimizerParams
                      THEN enc + 1 ELSE enc
    /\ GatedStep(found_inf)
    /\ AfterBatch("s2_batch", "s2_end")
    /\ b2' = CapBatches(b2 + 1)
    /\ UNCHANGED <<cfgVars, evalVars, outVars, err, ep_total, sched_T_max,
                   b1, cat2id, inference_classifier, builtAt>>

\* one batch of train_epoch_second_stage
SecondStageBatch == \E found_inf \in FoundInfOutcomes : SecondStageStep(found_inf)

\* end of train_epoch_second_stage, and "if args.debug: break" of the driver
SecondStageEnd ==
    /\ pc = "s2_end"
    /\ EpochAverages(IF debug THEN "eval" ELSE "s2_while")
    /\ UNCHANGED <<cfgVars, trainVars, modelVars, evalVars, simVars, outVars>>

\* ---------------------------------------------------------------- run_twostage, evaluation
\* lines 314-336: the first (base or all-categories) evaluation
TwoStageEvalFirst ==
    /\ pc = "eval"
    /\ IF setting = "base2new"
       THEN /\ EvalStart(testLen[1], TestClassnames, DatasetTemplate, "eval_new")
            /\ evalLog' = Append(evalLog, [loader |-> "test_base", classnames |-> TestClassnames])
       ELSE /\ EvalStart(testLen[1], Classnames, DatasetTemplate, "return")
            /\ evalLog' = Append(evalLog, [loader |-> "test", classnames |-> Classnames])
    /\ UNCHANGED <<cfgVars, simVars, result, err, count_iters, ep_total, scaleExp,
                   growth_tracker, scalerEvt, skips, sched_steps, sched_T_max,
                   enc, b1, b2, classifier, cat2id, builtAt, lastInfer, builds>>

\* lines 325-327: the evaluation on the novel classes
TwoStageEvalNew ==
    /\ pc = "eval_new"
    /\ EvalStart(testLen[2], TestNewClassnames, DatasetTemplate, "return")
    /\ evalLog' = Append(evalLog, [loader |-> "test_new", classnames |-> TestNewClassnames])
    /\ UNCHANGED <<cfgVars, simVars, result, err, count_iters, ep_total, scaleExp,
                   growth_tracker, scalerEvt, skips, sched_steps, sched_T_max,
                   enc, b1, b2, classifier, cat2id, builtAt, lastInfer, builds>>

\* lines 329, 336, 339: result = {...}; return result
ResultKeys(s) == IF s = "base2new" THEN {"acc_test_base", "acc_test_new"} ELSE {"acc_test"}
TwoStageReturn ==
    /\ pc = "return"
    /\ result' = ResultKeys(setting)
    /\ pc' = "done"
    /\ UNCHANGED <<cfgVars, trainVars, modelVars, evalVars, simVars, evalLog, err>>

\* ---------------------------------------------------------------- run_ln_only, evaluation
\* lines 108-129: evaluate(...) on the base or unified test loader
LnEvalFirst ==
    /\ pc = "ln_eval"
    /\ IF setting = "base2new"
       THEN /\ evalLog' = Append(evalLog, [loader |-> "test_base", classnames |-> TestClassnames])
            /\ result' = result
            /\ pc' = "ln_eval_new"
       ELSE /\ evalLog' = Append(evalLog, [loader |-> "test", classnames |-> TestClassnames])
            /\ result' = ResultKeys(setting)
            /\ pc' = "done"
    /\ UNCHANGED <<cfgVars, trainVars, modelVars, evalVars, simVars, err>>

\* lines 118-122, 131: evaluate(...) on the novel test loader; return result
LnEvalNew ==
    /\ pc = "ln_eval_new"
    /\ evalLog' = Append(evalLog, [loader |-> "test_new", classnames |-> TestNewClassnames])
    /\ result' = ResultKeys(setting)
    /\ pc' = "done"
    /\ UNCHANGED <<cfgVars, trainVars, modelVars, evalVars, simVars, err>>

\* ---------------------------------------------------------------- the drivers
\* Which branch receives gradients is followed in SpecGradients; the other
\* specifications run one configuration and leave it alone.
NoGradientTracking ==
    /\ peft = "ln"
    /\ ln_modality = "both"
    /\ encoder = "both"
    /\ trainable = {}
    /\ no_grad = {}
    /\ grads = {}

\* int(total_iters * args.n_iters_frac) for n_iters_frac = num / FracDen
CosineIters(total, num) == (total * num) \div FracDen

Init ==
    /\ driver \in {"ln_only", "twostage"}
    /\ debug \in BOOLEAN
    /\ setting \in {"base2new", "all2all"}
    /\ total_iters \in 0..MaxIters
    /\ \E num \in 0..FracDen :
          cosine_iters = IF driver = "twostage" THEN CosineIters(total_iters, num)
                         ELSE total_iters
    /\ trainLen \in 0..MaxLoader
    /\ testLen \in (0..MaxTestLoader) \X (0..MaxTestLoader)
    \* the second loader exists only in the base-to-novel setting; run_ln_only
    \* hands its loaders to evaluate() of fs.utils.eval_utils, which is not
    \* modelled, so their lengths are fixed there
    /\ (setting = "all2all" \/ driver = "ln_only") => testLen[2] = testLen[1]
    /\ driver = "ln_only" => testLen[1] = 1
    /\ NoGradientTracking
    /\ pc = IF driver = "ln_only" THEN "ln_while" ELSE "s1_while"
    /\ ret = "none"
    /\ count_iters = 0
    /\ ep_total = 0
    /\ i = 0
    /\ tot_samples = 0
    /\ scaleExp = InitScaleExp
    /\ growth_tracker = 0
    /\ scalerEvt = "none"
    /\ skips = 0
    /\ sched_steps = 0
    /\ sched_T_max = cosine_iters
    /\ enc = 0
    /\ b1 = 0
    /\ b2 = 0
    /\ builtAt = -1
    /\ classifier = <<>>
    /\ cat2id = <<>>
    /\ inference_classifier = NoCache
    /\ evClassnames = <<>>
    /\ evTemplate = ""
    /\ evLen = 0
    /\ evBuilds = 0
    /\ lastInfer = NoInfer
    /\ builds = <<>>
    /\ simMatrix = <<>>
    /\ logits = <<>>
    /\ evalLog = <<>>
    /\ result = {}
    /\ err = "none"

Next ==
    \/ LnWhile
    \/ LnBatch
    \/ LnEpochEnd
    \/ LnEvalFirst
    \/ LnEvalNew
    \/ Stage1While
    \/ TrainEpochBatch
    \/ TrainEpochEnd
    \/ BuildClassifier
    \/ Stage2While
    \/ SecondStageBatch
    \/ SecondStageEnd
    \/ TwoStageEvalFirst
    \/ TwoStageEvalNew
    \/ EvalBatch
    \/ EvalEnd
    \/ TwoStageReturn

Spec == Init /\ [][Next]_vars

\* ---------------------------------------------------------------- a client of the classifier
\* A SingleStreamClassifier constructed as run_twostage constructs it, and
\* used through its public operations in any order: infer with any category
\* list, template and compute_classifier_once, evaluate_selective_inference
\* over any loader, and training steps through forward.
CategoryLists == {<<"cat", "dog">>, <<"owl", "cat">>, <<"cat", "owl">>}

\* model.infer(x, categories, template, compute_classifier_once)
ClientInfer ==
    /\ pc = "idle"
    /\ \E x \in 1..MaxTestLoader, cats \in CategoryLists,
          tmpl \in Templates, once \in BOOLEAN :
            Infer(x, cats, tmpl, once)
    /\ UNCHANGED <<cfgVars, trainVars, outVars, err, pc, ret, builtAt,
                   evClassnames, evTemplate, evLen, evBuilds>>

\* evaluate_selective_inference(model, loader, template, classnames)
ClientEvaluate ==
    /\ pc = "idle"
    /\ \E len \in 0..MaxTestLoader, cats \in CategoryLists, tmpl \in Templates :
            EvalStart(len, cats, tmpl, "idle")
    /\ UNCHANGED <<cfgVars, simVars, outVars, err, count_iters, ep_total, scaleExp,
                   growth_tracker, scalerEvt, skips, sched_steps, sched_T_max,
                   enc, b1, b2, classifier, cat2id, builtAt, lastInfer, builds>>

\* logits = model(images, no_grad_backbone=True); ...; optimizer.step():
\* a training step on model.classifier.  lastInfer and builds describe the
\* classifier as it is, so they are forgotten when it changes.
ClientTrainStep ==
    /\ pc = "idle"
    /\ \A k \in DOMAIN classifier : classifier[k].upd < MaxClientSteps
    /\ \E x \in 1..MaxTestLoader : Forward(x)
    /\ \E ns \in [DOMAIN classifier -> 1..MaxNorm] :
            classifier' = StepClassifier(classifier, ns)
    /\ lastInfer' = NoInfer
    /\ builds' = <<>>
    /\ UNCHANGED <<cfgVars, trainVars, outVars, err, pc, ret, cat2id,
                   inference_classifier, builtAt, evClassnames, evTemplate,
                   evLen, evBuilds>>

InitClassifierClient ==
    /\ driver = "client"
    /\ debug = FALSE
    /\ setting = "all2all"
    /\ total_iters = 0
    /\ cosine_iters = 0
    /\ trainLen = 0
    /\ testLen = <<0, 0>>
    /\ NoGradientTracking
    /\ pc = "idle"
    /\ ret = "none"
    /\ count_iters = 0
    /\ ep_total = 0
    /\ i = 0
    /\ tot_samples = 0
    /\ scaleExp = InitScaleExp
    /\ growth_tracker = 0
    /\ scalerEvt = "none"
    /\ skips = 0
    /\ sched_steps = 0
    /\ sched_T_max = 0
    /\ enc = 0
    /\ b1 = 0
    /\ b2 = 0
    /\ builtAt = 0
    /\ classifier = InitClassifier(0, DatasetTemplate, Classnames)
    /\ cat2id = Cat2Id(Classnames)
    /\ inference_classifier = NoCache
    /\ evClassnames = <<>>
    /\ evTemplate = ""
    /\ evLen = 0
    /\ evBuilds = 0
    /\ lastInfer = NoInfer
    /\ builds = <<>>
    /\ simMatrix = <<>>
    /\ logits = <<>>
    /\ evalLog = <<>>
    /\ result = {}
    /\ err = "none"

NextClassifier ==
    \/ ClientInfer
    \/ ClientEvaluate
    \/ ClientTrainStep
    \/ EvalBatch
    \/ EvalEnd

SpecClassifier == InitClassifierClient /\ [][NextClassifier]_vars

\* ================================================================ claims
BatchPcs == {"ln_batch", "s1_batch", "s2_batch"}
EndPcs == {"ln_end", "s1_end", "s2_end"}
Stage1Pcs == {"s1_while", "s1_batch", "s1_end", "s2_init"}
InEpoch == pc \in BatchPcs \cup EndPcs

\* the evaluation phase of a driver has been entered
EvaluationStarted == pc \in {"eval", "ln_eval"} \/ evalLog # <<>>

\* C1: in every pass of every epoch function the counter stays <= the budget
\* the function was called with, at every batch and on return; the counter
\* never exceeds the driver's total_iters; and once the counter equals the
\* budget no further batch of that pass is processed, even if batches remain.
C1_CounterWithinBudget ==
    /\ [](InEpoch => count_iters <= ep_total)
    /\ [](count_iters <= total_iters)
    /\ [][(InEpoch /\ count_iters = ep_total) => (b1' = b1 /\ b2' = b2 /\ i' = i)]_vars

\* C1 witness: a pass ended by the break with batches left in the loader,
\* after the scaler skipped a step
C1_Witness ==
    /\ pc \in EndPcs
    /\ count_iters = ep_total
    /\ i < trainLen
    /\ skips >= 1

\* a batch of a two-stage epoch function: stepped says the optimizer moved
\* the parameters it trains (the encoder in stage 1, the classifier in stage 2)
C2_BatchStep ==
    pc \in {"s1_batch", "s2_batch"} =>
        LET stepped == IF pc = "s1_batch" THEN enc' # enc ELSE classifier' # classifier
        IN  /\ stepped <=> scalerEvt' # "skipped"
            /\ IF stepped
               THEN count_iters' = count_iters + 1 /\ sched_steps' = sched_steps + 1
               ELSE count_iters' = count_iters /\ sched_steps' = sched_steps

\* C2: in the two-stage epoch functions, on every batch the scheduler step
\* and the counter increment happen together, by one each, exactly when the
\* scaler did not skip the optimizer step (the trained parameters moved); a
\* batch on which the scaler grows its scale is not skipped.
C2_SchedulerAndCounterGatedOnSkip == [][C2_BatchStep]_vars

\* C2 witness: the scaler grew its scale on a two-stage batch of a run in
\* which it also skipped a step
C2_Witness ==
    /\ driver = "twostage"
    /\ pc \in {"s1_batch", "s1_end", "s2_batch", "s2_end"}
    /\ scalerEvt = "grew"
    /\ skips >= 1
    /\ count_iters >= GrowthInterval

\* the evaluator calls a setting asks for, in order
ExpectedEvals(s) ==
    IF s = "base2new"
    THEN <<[loader |-> "test_base", classnames |-> TestClassnames],
           [loader |-> "test_new", classnames |-> TestNewClassnames]>>
    ELSE <<[loader |-> "test",
            classnames |-> IF driver = "twostage" THEN Classnames ELSE TestClassnames]>>

\* C3: a driver that has started evaluating ends with the evaluator run
\* exactly twice (base loader and base names, then novel loader and novel
\* names) and the two keys acc_test_base / acc_test_new in the base-to-novel
\* setting, exactly once and the one key acc_test otherwise.
C3_EvaluationsAndKeys ==
    (EvaluationStarted /\ pc \in {"done", "error"}) =>
        /\ evalLog = ExpectedEvals(setting)
        /\ result = ResultKeys(setting)

\* C8: the class-side operand of every similarity product has unit-norm rows,
\* and so have the rows of a freshly initialised classifier and of the
\* inference cache.
C8_RowsUnitNorm ==
    /\ \A k \in DOMAIN simMatrix : simMatrix[k].norm = 1
    /\ \A k \in DOMAIN classifier : classifier[k].upd = 0 => classifier[k].norm = 1
    /\ inference_classifier.has =>
          \A k \in DOMAIN inference_classifier.mat : inference_classifier.mat[k].norm = 1

\* C8 witness: infer has scored a batch against a cache stacked from rows of
\* a trained classifier that are no longer unit-norm
C8_Witness ==
    /\ pc = "ev_end"
    /\ inference_classifier.has
    /\ simMatrix = inference_classifier.mat
    /\ evClassnames = TestClassnames
    /\ \E k \in DOMAIN classifier : classifier[k].norm > 1

\* C9: averaging over a loader that yields no batch is guarded: no epoch
\* function and no evaluation ends in an unguarded division by zero.
C9_EmptyLoaderGuarded == err # "ZeroDivisionError"

\* C10: run_twostage with debug off and a non-empty train loader: the
\* classifier does not exist during stage 1; it is constructed when exactly
\* cosine_iters optimizer steps have been applied to the encoder and counted,
\* from that encoder, before any stage-2 batch; evaluation starts with the
\* counter at total_iters after exactly total_iters - cosine_iters classifier
\* updates; with cosine_iters = 0 no stage-1 batch is processed at all.
C10_StageHandoff ==
    (driver = "twostage" /\ ~debug /\ trainLen > 0) =>
        /\ pc \in Stage1Pcs => (builtAt = -1 /\ classifier = <<>> /\ b2 = 0)
        /\ pc \notin Stage1Pcs =>
              /\ builtAt = cosine_iters
              /\ enc = cosine_iters
              /\ \A k \in DOMAIN classifier : classifier[k].enc = cosine_iters
              /\ cosine_iters = 0 => (b1 = 0 /\ enc = 0)
        /\ EvaluationStarted =>
              /\ count_iters = total_iters
              /\ \A k \in DOMAIN classifier :
                    classifier[k].upd = total_iters - cosine_iters

\* C10 witness: evaluation is about to start after both stages took counted
\* steps and the scaler skipped at least one
C10_Witness ==
    /\ driver = "twostage"
    /\ ~debug
    /\ pc = "eval"
    /\ cosine_iters >= 1
    /\ cosine_iters < total_iters
    /\ skips >= 1
    /\ count_iters = total_iters

\* ---------------------------------------------------------------- claims on the classifier
InEvaluation == pc \in {"ev_batch", "ev_end"}

\* a step that is one call of infer: a direct call of the client, or a batch
\* of evaluate_selective_inference
InferStep ==
    \/ pc = "idle" /\ pc' = "idle" /\ lastInfer' # NoInfer
    \/ pc = "ev_batch"

\* C4: every batch of an evaluate_selective_inference call is scored against
\* a matrix built from the class-name list (and template) of that call, row k
\* for name k; the call starts its loop with no cached inference classifier,
\* whatever an earlier evaluation or direct infer call left.
C4_EvaluationUsesOwnClassnames ==
    /\ (InEvaluation /\ i = 0) => ~inference_classifier.has
    /\ (InEvaluation /\ i >= 1) =>
          /\ inference_classifier.has
          /\ simMatrix = inference_classifier.mat
          /\ inference_classifier.cats = evClassnames
          /\ inference_classifier.tmpl = evTemplate
          /\ DOMAIN simMatrix = DOMAIN evClassnames
          /\ \A k \in DOMAIN simMatrix :
                /\ simMatrix[k].cat = evClassnames[k]
                /\ evClassnames[k] \notin DOMAIN cat2id => simMatrix[k].tmpl = evTemplate

\* C4 witness: an evaluation scored its batches after an earlier call had
\* cached a matrix for another class-name list
C4_Witness ==
    /\ pc = "ev_end"
    /\ i >= 2
    /\ Len(builds) = 2
    /\ builds[1].cats = evClassnames
    /\ builds[2].cats # evClassnames

\* C5, first half: in an evaluation the classifier is constructed on the
\* first batch and on no other
C5_EvalBatchStep == pc = "ev_batch" => (lastInfer'.built <=> i = 0)

\* C5, second half: an infer call with compute_classifier_once = False
\* constructs, caches and scores against a matrix for its own categories
C5_FreshStep ==
    (InferStep /\ ~lastInfer'.once) =>
        /\ lastInfer'.built
        /\ inference_classifier'.has
        /\ inference_classifier'.cats = lastInfer'.cats
        /\ simMatrix' = inference_classifier'.mat
        /\ \A k \in DOMAIN simMatrix' : simMatrix'[k].cat = lastInfer'.cats[k]

\* C5: an evaluation over N >= 1 batches constructs the inference classifier
\* exactly once, on its first batch, and reuses it on the others; an infer
\* call with compute_classifier_once = False constructs it afresh (from the
\* categories of that call) whether or not one is cached.
C5_OneConstructionPerEvaluation ==
    /\ []((InEvaluation /\ i >= 1) => evBuilds = 1)
    /\ [][C5_EvalBatchStep]_vars
    /\ [][C5_FreshStep]_vars

\* C5 witness: an evaluation over two batches has ended with one
\* construction, on a model for which infer had built a classifier before
C5_Witness ==
    /\ pc = "ev_end"
    /\ evLen >= 2
    /\ i = evLen
    /\ evBuilds = 1
    /\ Len(builds) = 2

IsPermutation(s, t) == Len(s) = Len(t) /\ Range(s) = Range(t)

\* C6, first half: an infer call with reuse enabled that directly follows an
\* infer call with reuse enabled and the same categories leaves the cached
\* matrix as it is, scores against it, and returns the same logits when
\* given the same input
C6_ReuseStep ==
    (/\ InferStep
     /\ lastInfer # NoInfer
     /\ lastInfer.once
     /\ lastInfer'.once
     /\ lastInfer'.cats = lastInfer.cats
     /\ inference_classifier.has) =>
        /\ inference_classifier' = inference_classifier
        /\ simMatrix' = simMatrix
        /\ ~lastInfer'.built
        /\ lastInfer'.x = lastInfer.x => logits' = logits

\* C6: with the encoder, the trained matrix and the template fixed, repeated
\* infer calls with reuse and the same categories use one matrix and give
\* the same logits for the same input; and a matrix built for a permutation
\* of the categories of the previous construction has, for each category,
\* the row that category had before, at the category's new position.
C6_ReuseAndPermutation ==
    /\ [][C6_ReuseStep]_vars
    /\ [](\A b \in DOMAIN builds : \A k \in DOMAIN builds[b].cats :
            builds[b].mat[k].cat = builds[b].cats[k])
    /\ []((/\ Len(builds) = 2
           /\ builds[1].tmpl = builds[2].tmpl
           /\ IsPermutation(builds[1].cats, builds[2].cats)) =>
            \A a \in DOMAIN builds[1].cats : \A b \in DOMAIN builds[2].cats :
                builds[1].cats[a] = builds[2].cats[b] =>
                    builds[1].mat[a] = builds[2].mat[b])

\* C6 witness: the last two constructions are for two different orders of
\* the same categories, one of them unknown to the trained classifier, whose
\* rows have been trained
C6_Witness ==
    /\ Len(builds) = 2
    /\ builds[1].tmpl = builds[2].tmpl
    /\ builds[1].cats # builds[2].cats
    /\ IsPermutation(builds[1].cats, builds[2].cats)
    /\ \E k \in DOMAIN builds[1].cats : builds[1].cats[k] \notin DOMAIN cat2id
    /\ \E k \in DOMAIN classifier : classifier[k].upd >= 1 /\ classifier[k].norm > 1

\* C7, the steps: an infer call changes neither the trained matrix nor the
\* name-to-row mapping
C7_InferStepFrame == InferStep => (classifier' = classifier /\ cat2id' = cat2id)

\* C7: infer, and so every evaluation, leaves the trained class-embedding
\* matrix and cat2id unchanged: they keep one row per construction-time
\* class name, and a row encoded for an unseen category lives only in the
\* inference cache.
C7_TrainedMatrixNotExtended ==
    /\ [][C7_InferStepFrame]_vars
    /\ [](DOMAIN cat2id = Range(Classnames))
    /\ [](DOMAIN classifier = DOMAIN Classnames)
    /\ [](\A k \in DOMAIN classifier : classifier[k].cat = Classnames[k])

\* C7 witness: infer has just built and cached a matrix with a row for a
\* category that was not a construction-time class
C7_Witness ==
    /\ lastInfer.built
    /\ inference_classifier.has
    /\ \E k \in DOMAIN inference_classifier.mat :
          inference_classifier.mat[k].cat \notin Range(Classnames)
    /\ \E k \in DOMAIN classifier : classifier[k].upd >= 1

\* ---------------------------------------------------------------- stage 2, budgets, fairness
Stage2Pcs == {"s2_while", "s2_batch", "s2_end"}

\* a step taken during stage 2: the encoder (with the logit scale) and the
\* stage-1 optimizer and scheduler stay as stage 1 left them; of the
\* classifier only the values of its rows move
C12_Stage2Step ==
    pc \in Stage2Pcs =>
        /\ enc' = enc
        /\ b1' = b1
        /\ pc' \notin Stage1Pcs
        /\ DOMAIN classifier' = DOMAIN classifier
        /\ \A k \in DOMAIN classifier :
              /\ classifier'[k].cat = classifier[k].cat
              /\ classifier'[k].tmpl = classifier[k].tmpl
              /\ classifier'[k].enc = classifier[k].enc
        /\ classifier' # classifier => pc = "s2_batch"

\* C12: during stage 2 only the rows of the classifier head change; the
\* encoder parameters, those trained in stage 1 and the logit scale included,
\* keep the values they had when stage 1 ended, and the stage-1 optimizer and
\* scheduler are never stepped again.
C12_OnlyClassifierMovesInStage2 ==
    /\ [][C12_Stage2Step]_vars
    /\ [](pc \in Stage2Pcs =>
            \A k \in DOMAIN classifier : classifier[k].enc = enc)

\* C12 witness: a stage-2 pass that moved the classifier after a stage 1 that
\* moved the encoder
C12_Witness ==
    /\ pc = "s2_end"
    /\ enc >= 1
    /\ b2 >= 1
    /\ \E k \in DOMAIN classifier : classifier[k].upd >= 1

\* a batch of ln_only.train_epoch
C13_LnBatchStep ==
    pc = "ln_batch" =>
        /\ count_iters' = count_iters + 1
        /\ sched_steps' = sched_steps + 1
        /\ b1' = b1 + 1

\* C13: ln_only.train_epoch increments the counter and advances the scheduler
\* exactly once per processed batch, skipped by the scaler or not; with debug
\* off and a non-empty loader run_ln_only has processed exactly total_iters
\* batches, over all passes, when it reaches the evaluation, and it does
\* reach it.
C13_LnOnlyCountsEveryBatch ==
    /\ [][C13_LnBatchStep]_vars
    /\ [](driver = "ln_only" => (b1 = count_iters /\ sched_steps = count_iters))
    /\ []((driver = "ln_only" /\ ~debug /\ trainLen > 0 /\ EvaluationStarted)
             => b1 = total_iters)
    /\ (driver = "ln_only" /\ ~debug /\ trainLen > 0) ~> EvaluationStarted

\* C13 witness: the evaluation of run_ln_only reached over more than one
\* pass, with a step the scaler skipped
C13_Witness ==
    /\ driver = "ln_only"
    /\ ~debug
    /\ pc = "ln_eval"
    /\ skips >= 1
    /\ total_iters > trainLen
    /\ b1 = total_iters

\* the scale read before (pre) and after (post) scaler.update() on a batch of
\* a two-stage epoch function; the batch is judged skipped when neither the
\* scheduler nor the counter moved
C14_JudgedSkipped == count_iters' = count_iters /\ sched_steps' = sched_steps
C14_Pre == GetScale(scaleExp)
C14_Post == GetScale(ScalerUpdate(scaleExp, growth_tracker, scalerEvt' = "skipped")[1])

C14_StepAsStated ==
    pc \in {"s1_batch", "s2_batch"} => (C14_JudgedSkipped <=> C14_Post > C14_Pre)
C14_StepAsCoded ==
    pc \in {"s1_batch", "s2_batch"} => (C14_JudgedSkipped <=> C14_Pre > C14_Post)

\* C14 (as stated): in the two-stage epoch functions a step is judged
\* skipped exactly when the scale read after the update exceeds the scale
\* read before it.
C14_SkippedWhenScaleGrew ==
    [][C14_StepAsStated]_vars

\* C14 (amended): a step is judged skipped exactly when the scale read before
\* the update exceeds the scale read after it.
C14_SkippedWhenScaleDropped ==
    [][C14_StepAsCoded]_vars

\* C14 witness: a pass of a two-stage epoch function whose last batch backed
\* the scale off, after a batch that was counted
C14_Witness ==
    /\ pc \in {"s1_end", "s2_end"}
    /\ scalerEvt = "skipped"
    /\ scaleExp < InitScaleExp
    /\ count_iters >= 1

\* C16: no scheduler is stepped more often than the horizon it was built
\* with: total_iters in run_ln_only, the stage-1 sub-budget in stage 1, and
\* total_iters minus the counter at the end of stage 1 in stage 2, also when
\* debug cut stage 1 short.
C16_SchedulerWithinHorizon ==
    /\ sched_steps <= sched_T_max
    /\ (driver = "ln_only" /\ pc \in {"ln_while", "ln_batch", "ln_end"})
          => sched_T_max = total_iters
    /\ (driver = "twostage" /\ pc \in Stage1Pcs) => sched_T_max = cosine_iters
    /\ pc \in Stage2Pcs => sched_T_max = total_iters - builtAt

\* C16 witness: stage 2 after a stage 1 that debug ended below its
\* sub-budget, with the stage-2 scheduler stepped
C16_Witness ==
    /\ debug
    /\ pc = "s2_end"
    /\ builtAt < cosine_iters
    /\ builtAt >= 1
    /\ sched_steps >= 1

\* run_ln_only alone, with a scheduler that keeps running the program
InitLnOnly == Init /\ driver = "ln_only"

NextLnOnly ==
    \/ LnWhile
    \/ LnBatch
    \/ LnEpochEnd
    \/ LnEvalFirst
    \/ LnEvalNew

FairSpecLnOnly == InitLnOnly /\ [][NextLnOnly]_vars /\ WF_vars(NextLnOnly)

\* run_twostage alone, with a scheduler that keeps running the program and a
\* scaler that does not skip every step from some point on
InitTwoStage == Init /\ driver = "twostage"

NextTwoStage ==
    \/ Stage1While
    \/ TrainEpochBatch
    \/ TrainEpochEnd
    \/ BuildClassifier
    \/ Stage2While
    \/ SecondStageBatch
    \/ SecondStageEnd
    \/ TwoStageEvalFirst
    \/ TwoStageEvalNew
    \/ EvalBatch
    \/ EvalEnd
    \/ TwoStageReturn

FairSpecTwoStage ==
    /\ InitTwoStage
    /\ [][NextTwoStage]_vars
    /\ WF_vars(NextTwoStage)
    /\ SF_vars(TrainEpochBatch /\ scalerEvt' # "skipped")
    /\ SF_vars(SecondStageBatch /\ scalerEvt' # "skipped")

\* leaving a stage's while loop
C15_LoopExit ==
    /\ (pc \in {"s1_while", "s1_batch", "s1_end"} /\ pc' = "s2_init")
          => (debug \/ count_iters >= cosine_iters)
    /\ (pc \in Stage2Pcs /\ pc' = "eval")
          => (debug \/ count_iters >= total_iters)

\* C15: with non-empty loaders and 0 <= cosine_iters <= total_iters,
\* run_twostage finishes both stages, evaluates and returns its results,
\* provided the scaler does not skip every step from some point on; a while
\* loop is left only on the counter or on debug, and at every batch a skipped
\* step, which leaves the counter alone, is possible.
C15_TwoStageTerminates ==
    /\ (driver = "twostage" /\ trainLen > 0 /\ testLen[1] > 0 /\ testLen[2] > 0)
          ~> (pc = "done" /\ result = ResultKeys(setting))
    /\ [](driver = "twostage" => (0 <= cosine_iters /\ cosine_iters <= total_iters))
    /\ [][C15_LoopExit]_vars
    /\ [](pc = "s1_batch" => ENABLED (TrainEpochStep(TRUE) /\ count_iters' = count_iters))
    /\ [](pc = "s2_batch" => ENABLED (SecondStageStep(TRUE) /\ count_iters' = count_iters))

\* C15 witness: run_twostage returned after both stages ran, each with a
\* step the scaler skipped
C15_Witness ==
    /\ driver = "twostage"
    /\ ~debug
    /\ pc = "done"
    /\ result = ResultKeys(setting)
    /\ skips >= MaxBackoff
    /\ b1 > cosine_iters
    /\ b2 > total_iters - cosine_iters

\* ---------------------------------------------------------------- gradient gating
Modalities == {"vision", "text", "both"}

\* trainable_norm_params / trainable_bias_params(clip_model, modality=m, ...)
\* and apply_lora(args, clip_model): the branches whose parameters they select
Branches(m) == IF m = "both" THEN {"text", "vision"} ELSE {m}

\* the modality the parameters are selected by: run_ln_only passes
\* args.ln_modality; prepare_for_first_stage passes args.ln_modality for "ln"
\* and args.encoder for "bitfit"; apply_lora reads args (its encoder option)
SelectionModality(d, strategy, lnm, e) ==
    IF d = "ln_only" \/ strategy = "ln" THEN lnm ELSE e

\* text_context_manager = torch.no_grad if args.ln_modality == 'vision' ...
\* vision_context_manager = torch.no_grad if args.ln_modality == 'text' ...
NoGradBranches(lnm) ==
    (IF lnm = "vision" THEN {"text"} ELSE {}) \cup
    (IF lnm = "text" THEN {"vision"} ELSE {})

\* prepare_for_first_stage (run_twostage) / trainable_norm_params (run_ln_only)
PrepareTrainable ==
    /\ pc = "g_prepare"
    /\ trainable' = Branches(SelectionModality(driver, peft, ln_modality, encoder))
    /\ pc' = "g_epoch"
    /\ UNCHANGED <<argVars, no_grad, grads, trainVars, modelVars, evalVars,
                   simVars, outVars, err>>

\* train_epoch, before its loop: the two context managers
EnterGatedEpoch ==
    /\ pc = "g_epoch"
    /\ no_grad' = NoGradBranches(ln_modality)
    /\ i' = 0
    /\ pc' = "g_batch"
    /\ UNCHANGED <<argVars, trainable, grads, modelVars, evalVars, simVars,
                   outVars, err, count_iters, ep_total, tot_samples, scaleExp,
                   growth_tracker, scalerEvt, skips, sched_steps, sched_T_max,
                   enc, b1, b2>>

\* forward under the context managers and scaler.scale(loss).backward(): a
\* parameter given to the optimizer gets a gradient unless its branch ran
\* under no_grad
ForwardBackward ==
    /\ pc = "g_batch"
    /\ grads' = trainable \ no_grad
    /\ pc' = "g_step"
    /\ UNCHANGED <<argVars, trainable, no_grad, trainVars, modelVars, evalVars,
                   simVars, outVars, err>>

\* scaler.step(optimizer); ...; optimizer.zero_grad(); next batch
StepAndZeroGrad ==
    /\ pc = "g_step"
    /\ grads' = {}
    /\ i' = i + 1
    /\ pc' = IF i' = trainLen THEN "g_done" ELSE "g_batch"
    /\ UNCHANGED <<argVars, trainable, no_grad, modelVars, evalVars, simVars,
                   outVars, err, count_iters, ep_total, tot_samples, scaleExp,
                   growth_tracker, scalerEvt, skips, sched_steps, sched_T_max,
                   enc, b1, b2>>

InitGradients ==
    /\ driver \in {"ln_only", "twostage"}
    /\ peft \in {"ln", "lora", "bitfit"}
    /\ ln_modality \in Modalities
    /\ encoder \in Modalities
    \* run_ln_only reads neither args.peft nor args.encoder
    /\ driver = "ln_only" => (peft = "ln" /\ encoder = "both")
    /\ trainable = {}
    /\ no_grad = {}
    /\ grads = {}
    /\ debug = FALSE
    /\ setting = "all2all"
    /\ total_iters = MaxIters
    /\ cosine_iters = MaxIters
    /\ trainLen \in 1..MaxLoader
    /\ testLen = <<1, 1>>
    /\ pc = "g_prepare"
    /\ ret = "none"
    /\ count_iters = 0
    /\ ep_total = 0
    /\ i = 0
    /\ tot_samples = 0
    /\ scaleExp = InitScaleExp
    /\ growth_tracker = 0
    /\ scalerEvt = "none"
    /\ skips = 0
    /\ sched_steps = 0
    /\ sched_T_max = cosine_iters
    /\ enc = 0
    /\ b1 = 0
    /\ b2 = 0
    /\ builtAt = -1
    /\ classifier = <<>>
    /\ cat2id = <<>>
    /\ inference_classifier = NoCache
    /\ evClassnames = <<>>
    /\ evTemplate = ""
    /\ evLen = 0
    /\ evBuilds = 0
    /\ lastInfer = NoInfer
    /\ builds = <<>>
    /\ simMatrix = <<>>
    /\ logits = <<>>
    /\ evalLog = <<>>
    /\ result = {}
    /\ err = "none"

NextGradients ==
    \/ PrepareTrainable
    \/ EnterGatedEpoch
    \/ ForwardBackward
    \/ StepAndZeroGrad

SpecGradients == InitGradients /\ [][NextGradients]_vars

\* C11: in every pass of train_epoch, for every strategy, the text branch
\* runs under no_grad exactly when the selected trainable parameters exclude
\* text, and the image branch exactly when they exclude vision; so no branch
\* that holds trainable parameters runs under no_grad.
C11_GatingMatchesSelection ==
    pc \in {"g_batch", "g_step", "g_done"} =>
        /\ no_grad = {"text", "vision"} \ trainable
        /\ trainable \cap no_grad = {}

====
